---- MODULE Spec2Model ----
(***************************************************************************)
(* Budget-request approval workflow: the request lifecycle (create,        *)
(* submit, approve, reject), the br:{id} and requests:detail read-through  *)
(* caches, the persisted department-budget mirror with its stale and       *)
(* synthetic fallbacks, and the best-effort side effects.                  *)
(*                                                                         *)
(* Optional values (a nullable column, a cache miss, findUnique's null)    *)
(* are sets with at most one element: {} is null, {v} is the value v.      *)
(***************************************************************************)
EXTENDS Integers, Sequences, FiniteSets, TLC

VARIABLES
    db,           \* BudgetRequest table: sequence of rows, id = index
    history,      \* BudgetRequestApprovalHistory table: sequence of rows
    applied,      \* every status update committed so far, in commit order
    approveDone,  \* ids whose approve has committed and run both invalidations
    brCache,      \* redis br:{id} entries (cache.service), id -> cached row
    detailCache,  \* requests:detail entries (cache.util), id -> cached row
    proc,         \* in-flight HTTP handlers, one record per handler slot
    opsStarted,   \* number of lifecycle handlers started so far
    mirror,       \* CachedDepartmentBudget table: set of rows
    budgetCache,  \* redis budget:{department}:{fiscalPeriod} entries
    lastSync,     \* the last syncDepartmentBudget call and what it returned
    listCache,    \* requests:list entries (cache.util), cache key -> cached result
    lastList,     \* the last listBudgetRequests call and what it was served
    hooks,        \* the webhook dispatcher: one dispatch and its POST attempts
    notes,        \* BudgetRequestNotification table and the sendNotification calls
    items,        \* BudgetRequestItemAllocation table: set of rows
    createTx,     \* the prisma.$transaction of a create in progress
    outbox        \* what the service has handed to Finance and to the notifier

vars == <<db, history, applied, approveDone, brCache, detailCache, proc, opsStarted,
          mirror, budgetCache, lastSync, listCache, lastList, hooks, notes,
          items, createTx, outbox>>

lifecycleVars == <<db, history, applied, approveDone, brCache, detailCache, proc, opsStarted>>
mirrorVars == <<mirror, budgetCache, lastSync>>
recordVars == <<items, createTx, outbox>>
sideVars == <<listCache, lastList, hooks, notes, recordVars>>

-----------------------------------------------------------------------------
(* Bounds of the model *)

MaxReq == 1        \* requests created in one behaviour
NumProcs == 2      \* handlers in flight at the same time
MaxOps == 3        \* lifecycle handlers started in one behaviour
MaxRows == 2       \* mirror rows when every department and period is tried
MaxTxOps == 1      \* lifecycle handlers started among step-by-step creates

Procs == 1..NumProcs

-----------------------------------------------------------------------------
(* Budget Cache Mirror: sync.service.ts *)

DefaultAllocation == 10000000

Departments == {"finance", "hr", "inventory", "operations"}

\* department.split('').reduce((acc, char) => acc + char.charCodeAt(0), 0)
CharCodeSum(department) ==
    CASE department = "finance" -> 724
      [] department = "hr" -> 218
      [] department = "inventory" -> 1006
      [] department = "operations" -> 1092

Quarters == {"Q1", "Q2", "Q3", "Q4"}
Halves == {"H1", "H2"}

\* parseInt of the period with its letter removed
PeriodDigit(fiscalPeriod) ==
    CASE fiscalPeriod \in {"Q1", "H1"} -> 1
      [] fiscalPeriod \in {"Q2", "H2"} -> 2
      [] fiscalPeriod = "Q3" -> 3
      [] fiscalPeriod = "Q4" -> 4

\* Periods in the month format YYYY-MM, and parseInt of what follows the dash
Months == {"2025-01", "2025-06", "2025-11"}

MonthNumber(fiscalPeriod) ==
    CASE fiscalPeriod = "2025-01" -> 1
      [] fiscalPeriod = "2025-06" -> 6
      [] fiscalPeriod = "2025-11" -> 11

PeriodNum(fiscalPeriod) ==
    IF fiscalPeriod \in Quarters THEN PeriodDigit(fiscalPeriod)
    ELSE IF fiscalPeriod \in Halves THEN PeriodDigit(fiscalPeriod) + 4
    ELSE MonthNumber(fiscalPeriod) + 10

MockBudgetIdPositive(department, fiscalYear, fiscalPeriod) ==
    fiscalYear * 100 + PeriodNum(fiscalPeriod) * 10 + (CharCodeSum(department) % 10)

MockBudgetId(department, fiscalYear, fiscalPeriod) ==
    -(fiscalYear * 100 + PeriodNum(fiscalPeriod) * 10 + (CharCodeSum(department) % 10))

\* The Finance API's answer to GET /api/budgets/department/{department}:
\* a failure (network error, timeout, non-2xx) or a budget snapshot.
FinanceBudgetId(department, fiscalYear, fiscalPeriod) ==
    fiscalYear + PeriodNum(fiscalPeriod) + (CharCodeSum(department) % 10)

FinanceSnapshots ==
    { [allocatedAmount |-> 20000, usedAmount |-> 12000,
       reservedAmount |-> 0, remainingAmount |-> 8000],
      [allocatedAmount |-> 20000, usedAmount |-> 8000,
       reservedAmount |-> 0, remainingAmount |-> 12000] }

FinanceFailure == [ok |-> FALSE]
FinanceAnswers(department, fiscalYear, fiscalPeriod) ==
    {FinanceFailure} \cup
    { [ok |-> TRUE,
       id |-> FinanceBudgetId(department, fiscalYear, fiscalPeriod),
       allocatedAmount |-> s.allocatedAmount,
       usedAmount |-> s.usedAmount,
       reservedAmount |-> s.reservedAmount,
       remainingAmount |-> s.remainingAmount] : s \in FinanceSnapshots }

\* findUnique({ where: { department_fiscalYear_fiscalPeriod } })
FindUniqueBudget(m, department, fiscalYear, fiscalPeriod) ==
    { r \in m : /\ r.department = department
                /\ r.fiscalYear = fiscalYear
                /\ r.fiscalPeriod = fiscalPeriod }

NewMirrorId(m) == Cardinality(m) + 1

\* prisma.cachedDepartmentBudget.upsert: the row after the upsert and the table
Upsert(m, createRow, updateFields) ==
    LET found == FindUniqueBudget(m, createRow.department, createRow.fiscalYear,
                                  createRow.fiscalPeriod)
    IN IF found = {}
       THEN LET row == [createRow EXCEPT !.id = NewMirrorId(m)]
            IN [row |-> row, table |-> m \cup {row}]
       ELSE LET old == CHOOSE r \in found : TRUE
                row == [f \in DOMAIN old |->
                          IF f \in DOMAIN updateFields THEN updateFields[f] ELSE old[f]]
            IN [row |-> row, table |-> (m \ {old}) \cup {row}]

\* update({ where: { id }, data: { isStale: true } })
MarkStale(m, id) ==
    { IF r.id = id THEN [r EXCEPT !.isStale = TRUE] ELSE r : r \in m }

\* syncDepartmentBudget, success branch (lines 168-219)
SyncFromFinance(m, bc, department, fiscalYear, fiscalPeriod, fin) ==
    LET up == Upsert(m,
                [id |-> 0,
                 budgetId |-> fin.id,
                 department |-> department,
                 fiscalYear |-> fiscalYear,
                 fiscalPeriod |-> fiscalPeriod,
                 allocatedAmount |-> fin.allocatedAmount,
                 usedAmount |-> fin.usedAmount,
                 reservedAmount |-> fin.reservedAmount,
                 remainingAmount |-> fin.remainingAmount,
                 isStale |-> FALSE],
                [allocatedAmount |-> fin.allocatedAmount,
                 usedAmount |-> fin.usedAmount,
                 reservedAmount |-> fin.reservedAmount,
                 remainingAmount |-> fin.remainingAmount,
                 isStale |-> FALSE])
        ck == <<department, fiscalPeriod>>
    IN [path |-> "finance",
        result |-> up.row,
        mirror |-> up.table,
        budgetCache |-> [k \in DOMAIN bc \cup {ck} |-> IF k = ck THEN up.row ELSE bc[k]]]

\* The earlier revision of the catch branch (lines 68-92): no synthetic
\* default, the call throws when the mirror has no row.
SyncFallbackThrows(m, bc, department, fiscalYear, fiscalPeriod) ==
    LET found == FindUniqueBudget(m, department, fiscalYear, fiscalPeriod)
    IN IF found # {}
       THEN LET staleData == CHOOSE r \in found : TRUE
            IN [path |-> "stale",
                result |-> staleData,
                mirror |-> MarkStale(m, staleData.id),
                budgetCache |-> bc]
       ELSE [path |-> "error", result |-> {}, mirror |-> m, budgetCache |-> bc]

\* syncDepartmentBudget, catch branch (lines 220-307)
SyncFallback(m, bc, department, fiscalYear, fiscalPeriod) ==
    LET found == FindUniqueBudget(m, department, fiscalYear, fiscalPeriod)
    IN IF found # {}
       THEN LET staleData == CHOOSE r \in found : TRUE
            IN [path |-> "stale",
                result |-> staleData,
                mirror |-> MarkStale(m, staleData.id),
                budgetCache |-> bc]
       ELSE LET up == Upsert(m,
                        [id |-> 0,
                         budgetId |-> MockBudgetId(department, fiscalYear, fiscalPeriod),
                         department |-> department,
                         fiscalYear |-> fiscalYear,
                         fiscalPeriod |-> fiscalPeriod,
                         allocatedAmount |-> DefaultAllocation,
                         usedAmount |-> 0,
                         reservedAmount |-> 0,
                         remainingAmount |-> DefaultAllocation,
                         isStale |-> TRUE],
                        [isStale |-> TRUE])
            IN [path |-> "synthetic",
                result |-> up.row,
                mirror |-> up.table,
                budgetCache |-> bc]

\* syncDepartmentBudget(department, fiscalYear, fiscalPeriod) (lines 162-308)
SyncDepartmentBudget(m, bc, department, fiscalYear, fiscalPeriod, fin) ==
    LET ck == <<department, fiscalPeriod>>
    IN IF ck \in DOMAIN bc
       THEN [path |-> "cache", result |-> bc[ck], mirror |-> m, budgetCache |-> bc]
       ELSE IF fin.ok
            THEN SyncFromFinance(m, bc, department, fiscalYear, fiscalPeriod, fin)
            ELSE SyncFallback(m, bc, department, fiscalYear, fiscalPeriod)

\* What a call leaves behind for the observer: its arguments, Finance's
\* answer, the mirror row found before the call, and the returned record.
SyncRecord(m, department, fiscalYear, fiscalPeriod, fin, out) ==
    [caller |-> "sync",
     created |-> {},
     path |-> out.path,
     department |-> department,
     fiscalYear |-> fiscalYear,
     fiscalPeriod |-> fiscalPeriod,
     financeOk |-> fin.ok,
     prior |-> FindUniqueBudget(m, department, fiscalYear, fiscalPeriod),
     result |-> out.result]

-----------------------------------------------------------------------------
(* Actors: auth.middleware.ts verifyJWT and permission.middleware.ts *)

UserRoles ==
    {"Finance Admin", "Finance Staff", "Operations Admin", "Operations Staff",
     "HR Admin"}

\* extractDepartment(role): the leading department word, lower-cased
ExtractDepartment(role) ==
    CASE role \in {"Finance Admin", "Finance Staff"} -> "finance"
      [] role \in {"Operations Admin", "Operations Staff"} -> "operations"
      [] role = "HR Admin" -> "hr"
      [] OTHER -> "unknown"

\* user.role.toLowerCase().includes('admin')
IsAdminRole(role) == role \in {"Finance Admin", "Operations Admin", "HR Admin"}

\* req.user as verifyJWT attaches it
User(id, role) == [id |-> id, role |-> role, department |-> ExtractDepartment(role)]

Creator == User("u1", "Operations Staff")
FinanceAdmin == User("fa", "Finance Admin")
NoUser == [id |-> "none", role |-> "none", department |-> "none"]

AccessUsers ==
    { Creator, FinanceAdmin, User("u2", "Operations Staff"),
      User("oa", "Operations Admin"), User("ha", "HR Admin"),
      User("fs", "Finance Staff") }

Scopes == {"own", "department", "all"}

\* checkPermission({ action, scope }) for a request that names an id; found is
\* what prisma.budgetRequest.findUnique gives for it.  The branch for the
\* actions edit and delete (lines 76-103) is not reached by view, submit or
\* approve.
CheckPermissionNoFinanceRule(user, action, scope, found) ==
    IF user.department = "finance" /\ IsAdminRole(user.role) THEN "next"
    ELSE IF scope = "department" /\ (found = {} \/ (CHOOSE r \in found : TRUE).isDeleted)
         THEN "notFound"
    ELSE IF scope = "department"
            /\ (CHOOSE r \in found : TRUE).department # user.department
         THEN "forbidden"
    ELSE IF scope = "own" /\ (found = {} \/ (CHOOSE r \in found : TRUE).isDeleted)
         THEN "notFound"
    ELSE IF scope = "own" /\ (CHOOSE r \in found : TRUE).createdBy # user.id
         THEN "forbidden"
    ELSE "next"

CheckPermission(user, action, scope, found) ==
    IF user.department = "finance" /\ IsAdminRole(user.role) THEN "next"
    ELSE IF scope = "department" /\ (found = {} \/ (CHOOSE r \in found : TRUE).isDeleted)
         THEN "notFound"
    ELSE IF scope = "department"
            /\ (CHOOSE r \in found : TRUE).department # user.department
         THEN "forbidden"
    ELSE IF scope = "own" /\ (found = {} \/ (CHOOSE r \in found : TRUE).isDeleted)
         THEN "notFound"
    ELSE IF scope = "own" /\ (CHOOSE r \in found : TRUE).createdBy # user.id
         THEN "forbidden"
    ELSE IF action = "approve" /\ user.department # "finance"
         THEN "forbidden"
    ELSE "next"

\* service.checkAccess(budgetRequest, user)
CheckAccess(budgetRequest, user) ==
    IF user.role = "SuperAdmin" THEN TRUE
    ELSE IF user.role \in {"Finance Admin", "Operations Admin", "HR Admin"}
         THEN budgetRequest.department = user.department
    ELSE budgetRequest.createdBy = user.id

-----------------------------------------------------------------------------
(* Request Store: budgetRequest.service.ts create, and its controller *)

\* What create accepts: validation.util.ts budgetRequestSchema
CreateStatuses == {"DRAFT", "SUBMITTED"}

\* budgetShortfall > 0 ? budgetShortfall : 0 (line 428)
Max0Unclamped(x) == x

Max0(x) == IF x > 0 THEN x ELSE 0

\* The BudgetRequest row written by create (lines 404-432)
NewRequestRow(data, budget) ==
    [department |-> data.department,
     fiscalYear |-> data.fiscalYear,
     fiscalPeriod |-> data.fiscalPeriod,
     amountRequested |-> data.amountRequested,
     departmentBudgetRemaining |-> budget.remainingAmount,
     budgetShortfall |-> Max0(data.amountRequested - budget.remainingAmount),
     budgetBefore |-> budget.remainingAmount,
     status |-> data.status,
     reservedAmount |-> {},
     bufferAmount |-> {},
     bufferPercentage |-> {},
     createdBy |-> data.createdBy,
     isDeleted |-> FALSE]

\* cache.invalidateBudgetRequests(): every requests:list entry goes
InvalidateBudgetRequests(cache) == <<>>

\* createBudgetRequest: sync, insert in one transaction, audit log, list and
\* analytics invalidation, webhook; a thrown error becomes an error response.
Create(data, fin) ==
    LET out == SyncDepartmentBudget(mirror, budgetCache, data.department,
                                    data.fiscalYear, data.fiscalPeriod, fin)
        call == SyncRecord(mirror, data.department, data.fiscalYear,
                           data.fiscalPeriod, fin, out)
    IN /\ Len(db) < MaxReq
       /\ mirror' = out.mirror
       /\ budgetCache' = out.budgetCache
       /\ IF out.path = "error"
          THEN /\ db' = db
               /\ listCache' = listCache
               /\ lastSync' = [call EXCEPT !.caller = "create", !.created = {}]
          ELSE /\ db' = Append(db, NewRequestRow(data, out.result))
               /\ listCache' = InvalidateBudgetRequests(listCache)
               /\ lastSync' = [call EXCEPT !.caller = "create",
                                           !.created = {Len(db) + 1}]
       /\ UNCHANGED <<recordVars, lastList, hooks, notes, history, applied, approveDone, brCache, detailCache,
                      proc, opsStarted>>

\* Before the first call
NoSync ==
    [caller |-> "none", created |-> {}, path |-> "none", department |-> "none",
     fiscalYear |-> 0, fiscalPeriod |-> "none", financeOk |-> FALSE,
     prior |-> {}, result |-> {}]

\* A direct call of syncDepartmentBudget
SyncCall(department, fiscalYear, fiscalPeriod, fin) ==
    LET out == SyncDepartmentBudget(mirror, budgetCache, department,
                                    fiscalYear, fiscalPeriod, fin)
    IN /\ mirror' = out.mirror
       /\ budgetCache' = out.budgetCache
       /\ lastSync' = SyncRecord(mirror, department, fiscalYear, fiscalPeriod, fin, out)
       /\ UNCHANGED <<lifecycleVars, sideVars>>

\* The TTL of a budget:{department}:{fiscalPeriod} entry runs out
ExpireBudgetCache(ck) ==
    /\ ck \in DOMAIN budgetCache
    /\ budgetCache' = [k \in DOMAIN budgetCache \ {ck} |-> budgetCache[k]]
    /\ UNCHANGED <<sideVars, lifecycleVars, mirror, lastSync>>

-----------------------------------------------------------------------------
(* Response caches *)

CacheGet(cache, id) == IF id \in DOMAIN cache THEN {cache[id]} ELSE {}
CacheSet(cache, id, value) ==
    [k \in DOMAIN cache \cup {id} |-> IF k = id THEN value ELSE cache[k]]
CacheDel(cache, id) == [k \in DOMAIN cache \ {id} |-> cache[k]]

-----------------------------------------------------------------------------
(* Side-Effect Dispatcher: each call ends "returned" or "thrown" *)

Outcomes == {"ok", "fail"}

\* auditLogger.log: try { axios.post } catch { console.error }
AuditLoggerLogRethrows(outcome) == IF outcome = "ok" THEN "returned" ELSE "thrown"
AuditLoggerLog(outcome) == IF outcome = "ok" THEN "returned" ELSE "returned"

\* webhookDispatcher.dispatch: Promise.allSettled over sendWebhook's try/catch
WebhookDispatch(outcome) == IF outcome = "ok" THEN "returned" ELSE "returned"

\* notificationService.sendNotification: try { create; sendMail; update } catch
SendNotification(outcome) == IF outcome = "ok" THEN "returned" ELSE "returned"

\* syncService.notifyBudgetReservation: try { findUnique; axios.post } catch
NotifyBudgetReservation(outcome) == IF outcome = "ok" THEN "returned" ELSE "returned"

-----------------------------------------------------------------------------
(* Lifecycle Engine: controller handlers and budgetRequest.service.ts *)

Transitions == {"submit", "approve", "reject"}
Ops == Transitions \cup {"get"}

SourceStatus(op) == IF op = "submit" THEN "DRAFT" ELSE "SUBMITTED"
TargetStatus(op) ==
    CASE op = "submit" -> "SUBMITTED"
      [] op = "approve" -> "APPROVED"
      [] op = "reject" -> "REJECTED"

\* req.body of approve: reservedAmount and bufferPercentage are optional
ApprovalInputs ==
    { [reservedAmount |-> {}, bufferPercentage |-> {10}],
      [reservedAmount |-> {50000}, bufferPercentage |-> {5}],
      [reservedAmount |-> {}, bufferPercentage |-> {}] }

\* approvalData as service.approve can receive it when the caller has not
\* passed it through approvalSchema
ServiceApprovalInputs ==
    ApprovalInputs \cup { [reservedAmount |-> {}, bufferPercentage |-> {150}],
                          [reservedAmount |-> {}, bufferPercentage |-> {0 - 10}] }
NoInput == [reservedAmount |-> {}, bufferPercentage |-> {}]
Inputs(op) == IF op = "approve" THEN ApprovalInputs ELSE {NoInput}
ServiceInputs(op) == IF op = "approve" THEN ServiceApprovalInputs ELSE {NoInput}

\* reservedAmount || existingRequest.amountRequested, bufferPercentage || 0
OrElseIgnoresInput(opt, default) == default

OrElse(opt, default) == IF opt = {} THEN default ELSE CHOOSE v \in opt : TRUE

\* BudgetCalculator.calculateTotalReserved(amount, bufferPercentage)
CalculateTotalReserved(amount, bufferPercentage) ==
    LET bufferAmount == (amount * bufferPercentage) \div 100
    IN [bufferAmount |-> bufferAmount, totalReserved |-> amount + bufferAmount]

DbFind(id) == IF id \in 1..Len(db) THEN {db[id]} ELSE {}
TheRow(opt) == CHOOSE r \in opt : TRUE

IdleProc ==
    [pc |-> "idle", op |-> "none", id |-> 0, arg |-> NoInput, ret |-> "none",
     found |-> {}, updated |-> {}, transition |-> 0,
     failed |-> FALSE, cacheFailed |-> FALSE, committed |-> FALSE,
     resp |-> "none", body |-> {}, after |-> FALSE, user |-> NoUser,
     scope |-> "none"]

\* The handler ends: its locals are gone, the response stays to be observed
Respond(h, resp, body) ==
    [IdleProc EXCEPT !.pc = "done", !.op = h.op, !.id = h.id,
                     !.failed = h.failed, !.cacheFailed = h.cacheFailed,
                     !.committed = h.committed,
                     !.after = h.after, !.resp = resp, !.body = body,
                     !.user = h.user, !.scope = h.scope]

\* What a side-effect call does to the handler: go on, or end in the
\* controller's catch with an error response.
AfterSideEffect(h, result, outcome, next) ==
    IF result = "thrown"
    THEN Respond([h EXCEPT !.failed = TRUE], "error", {})
    ELSE [h EXCEPT !.pc = next, !.failed = h.failed \/ (outcome = "fail")]

\* The action the route of an operation asks checkPermission for
RouteAction(op) ==
    CASE op = "get" -> "view"
      [] op = "submit" -> "submit"
      [] op \in {"approve", "reject"} -> "approve"

\* A request of user arrives at the first free handler slot (one that is idle
\* or has sent its response): submit, approve, reject or get of request id,
\* on a route guarded by checkPermission({ action, scope }).  A refusal of the
\* middleware is the response; otherwise the controller starts.
Arrive(p, op, id, arg, user, scope) ==
    LET verdict == CheckPermission(user, RouteAction(op), scope, DbFind(id))
        h == [IdleProc EXCEPT !.op = op, !.id = id, !.user = user, !.scope = scope,
                              !.after = id \in approveDone]
    IN /\ proc[p].pc \in {"idle", "done"}
       /\ \A q \in Procs : q < p => proc[q].pc \notin {"idle", "done"}
       /\ opsStarted < MaxOps
       /\ opsStarted' = opsStarted + 1
       /\ proc' = [proc EXCEPT ![p] =
                    IF verdict = "next"
                    THEN [h EXCEPT
                            !.pc = IF op = "get" THEN "g_get" ELSE "fb_get",
                            !.ret = IF op = "get" THEN "g_store" ELSE "c_check",
                            !.arg = arg]
                    ELSE Respond(h, verdict, {})]
       /\ UNCHANGED <<sideVars, db, history, applied, approveDone, brCache, detailCache, mirrorVars>>

\* Who calls what in the lifecycle: the creator submits and reads, a Finance
\* Admin reviews
LifecycleActor(op) == IF op \in {"approve", "reject"} THEN FinanceAdmin ELSE Creator

Start(p, op, id, arg) == Arrive(p, op, id, arg, LifecycleActor(op), "all")

\* The controller's checks on the record its findById returned (submit 210-225,
\* approve 262-272, reject 312-322): they run without an await in between.
ControllerCheck(h, found) ==
    IF found = {} THEN Respond(h, "notFound", {})
    ELSE IF /\ h.op = "submit"
            /\ TheRow(found).createdBy # h.user.id
            /\ ~IsAdminRole(h.user.role)
         THEN Respond(h, "forbidden", {})
    ELSE IF TheRow(found).status # SourceStatus(h.op)
         THEN Respond(h, "badRequest", {})
    ELSE IF h.op = "submit" THEN [h EXCEPT !.pc = "sub_update", !.found = found]
    ELSE [h EXCEPT !.pc = "fb_get", !.ret = "tx", !.found = {}]

\* findById returns to its caller
FindByIdReturns(h, found) ==
    IF h.ret = "c_check" THEN ControllerCheck(h, found)
    ELSE [h EXCEPT !.pc = h.ret, !.found = found]

\* findById: cacheService.getBudgetRequest(id), a hit returns the cached record
FbGet(p) ==
    LET h == proc[p]
        hit == CacheGet(brCache, h.id)
    IN /\ h.pc = "fb_get"
       /\ proc' = [proc EXCEPT ![p] =
                    IF hit # {} THEN FindByIdReturns(h, hit)
                    ELSE [h EXCEPT !.pc = "fb_db"]]
       /\ UNCHANGED <<sideVars, db, history, applied, approveDone, brCache, detailCache,
                      opsStarted, mirrorVars>>

\* findById: prisma.budgetRequest.findUnique({ where: { id } })
FbDb(p) ==
    LET h == proc[p]
        row == DbFind(h.id)
    IN /\ h.pc = "fb_db"
       /\ proc' = [proc EXCEPT ![p] =
                    IF row = {} THEN FindByIdReturns(h, {})
                    ELSE [h EXCEPT !.pc = "fb_store", !.found = row]]
       /\ UNCHANGED <<sideVars, db, history, applied, approveDone, brCache, detailCache,
                      opsStarted, mirrorVars>>

\* findById: cacheService.cacheBudgetRequest(id, budgetRequest)
FbStore(p) ==
    LET h == proc[p]
    IN /\ h.pc = "fb_store"
       /\ brCache' = CacheSet(brCache, h.id, TheRow(h.found))
       /\ proc' = [proc EXCEPT ![p] = FindByIdReturns(h, h.found)]
       /\ UNCHANGED <<sideVars, db, history, applied, approveDone, detailCache,
                      opsStarted, mirrorVars>>

\* service.submit: prisma.budgetRequest.update({ status: 'SUBMITTED' })
SubmitUpdate(p) ==
    LET h == proc[p]
        row == [db[h.id] EXCEPT !.status = "SUBMITTED"]
    IN /\ h.pc = "sub_update"
       /\ db' = [db EXCEPT ![h.id] = row]
       /\ applied' = Append(applied, [id |-> h.id, from |-> db[h.id].status,
                                      to |-> "SUBMITTED"])
       /\ proc' = [proc EXCEPT ![p] =
                    [h EXCEPT !.pc = "invalidate", !.updated = {row},
                              !.committed = TRUE, !.transition = Len(applied) + 1]]
       /\ UNCHANGED <<sideVars, history, approveDone, brCache, detailCache, opsStarted, mirrorVars>>

\* The row approve and reject write (lines 513-530, 571-583)
ApprovedRow(row, existing, arg) ==
    LET calc == CalculateTotalReserved(OrElse(arg.reservedAmount, existing.amountRequested),
                                       OrElse(arg.bufferPercentage, 0))
    IN [row EXCEPT !.status = "APPROVED",
                   !.reservedAmount = {calc.totalReserved},
                   !.bufferAmount = {calc.bufferAmount},
                   !.bufferPercentage = arg.bufferPercentage]
RejectedRow(row) == [row EXCEPT !.status = "REJECTED"]

\* prisma/tx.budgetRequestApprovalHistory.create: one more row; the service
\* holds no update, upsert or delete of the history table
HistoryReplace(table, row) ==
    IF \E j \in 1..Len(table) : table[j].budgetRequestId = row.budgetRequestId
    THEN LET j == CHOOSE k \in 1..Len(table) :
                     table[k].budgetRequestId = row.budgetRequestId
         IN [table EXCEPT ![j] = row]
    ELSE Append(table, row)
HistoryCreate(table, row) == Append(table, row)

\* The history row approve and reject append (lines 533-546, 586-597)
ReviewHistoryRow(id, op, existing, row, n) ==
    [budgetRequestId |-> id,
     fromStatus |-> existing.status,
     toStatus |-> TargetStatus(op),
     action |-> TargetStatus(op),
     amountBefore |-> IF op = "approve" THEN {existing.amountRequested} ELSE {},
     amountAfter |-> IF op = "approve" THEN row.reservedAmount ELSE {},
     transition |-> n]

\* service.approve / service.reject after their findById: not found throws,
\* otherwise prisma.$transaction(update + approvalHistory.create)
ReviewTx(p) ==
    LET h == proc[p]
        existing == TheRow(h.found)
        row == IF h.op = "approve" THEN ApprovedRow(db[h.id], existing, h.arg)
               ELSE RejectedRow(db[h.id])
    IN /\ h.pc = "tx"
       /\ IF h.found = {}
          THEN /\ proc' = [proc EXCEPT ![p] = Respond(h, "error", {})]
               /\ UNCHANGED <<db, history, applied>>
          ELSE /\ db' = [db EXCEPT ![h.id] = row]
               /\ applied' = Append(applied, [id |-> h.id, from |-> db[h.id].status,
                                              to |-> TargetStatus(h.op)])
               /\ history' = HistoryCreate(history,
                                ReviewHistoryRow(h.id, h.op, existing, row, Len(applied) + 1))
               /\ proc' = [proc EXCEPT ![p] =
                            [h EXCEPT !.pc = "invalidate", !.updated = {row},
                                      !.committed = TRUE,
                                      !.transition = Len(applied) + 1]]
       /\ UNCHANGED <<sideVars, approveDone, brCache, detailCache, opsStarted, mirrorVars>>

\* cacheService.invalidateBudgetRequest(id): redis.del(br:{id}), awaited
\* outside any try block of the service; when the command is rejected the
\* service method throws and the controller's catch answers with an error.
Invalidate(p, outcome) ==
    LET h == proc[p]
    IN /\ h.pc = "invalidate"
       /\ IF outcome = "ok"
          THEN /\ brCache' = CacheDel(brCache, h.id)
               /\ proc' = [proc EXCEPT ![p] =
                     [h EXCEPT !.pc = IF h.op = "approve" THEN "reserve" ELSE "notify"]]
          ELSE /\ brCache' = brCache
               /\ proc' = [proc EXCEPT ![p] =
                     Respond([h EXCEPT !.cacheFailed = TRUE], "error", {})]
       /\ UNCHANGED <<sideVars, db, history, applied, approveDone, detailCache,
                      opsStarted, mirrorVars>>

\* generateIdempotencyKey(entity, action, id) of lib/idempotency
GenerateIdempotencyKey(entity, action, id) == <<entity, action, id>>

\* What notifyBudgetReservation posts to Finance for the row its findUnique
\* returned: amount is Number(reservedAmount), 0 for null.  rowStatus is the
\* status the row had when it was read.
ReservationMessage(id, row) ==
    [kind |-> "reservation",
     budgetRequestId |-> id,
     amount |-> IF row.reservedAmount = {} THEN 0
                ELSE CHOOSE a \in row.reservedAmount : TRUE,
     rowStatus |-> row.status,
     idempotencyKey |-> GenerateIdempotencyKey("budget", "reserve", id)]

\* notifyAdminsNewRequest was called for the updated row
AdminNotification(id, row) ==
    [kind |-> "adminNotification",
     budgetRequestId |-> id,
     amount |-> 0,
     rowStatus |-> row.status,
     idempotencyKey |-> <<>>]

\* service.approve: syncService.notifyBudgetReservation(id)
Reserve(p, outcome) ==
    LET h == proc[p]
    IN /\ h.pc = "reserve"
       /\ outbox' = outbox \cup { ReservationMessage(h.id, db[h.id]) }
       /\ proc' = [proc EXCEPT ![p] =
                    AfterSideEffect(h, NotifyBudgetReservation(outcome), outcome, "notify")]
       /\ UNCHANGED <<db, history, applied, approveDone, brCache, detailCache,
                      opsStarted, mirrorVars, listCache, lastList, hooks, notes,
                      items, createTx>>

\* notifyAdminsNewRequest / notifyRequestApproved / notifyRequestRejected
Notify(p, outcome) ==
    LET h == proc[p]
    IN /\ h.pc = "notify"
       /\ outbox' = IF h.op = "submit"
                    THEN outbox \cup { AdminNotification(h.id, TheRow(h.updated)) }
                    ELSE outbox
       /\ proc' = [proc EXCEPT ![p] =
                    AfterSideEffect(h, SendNotification(outcome), outcome,
                                    IF h.op = "submit" THEN "sub_hist" ELSE "audit")]
       /\ UNCHANGED <<db, history, applied, approveDone, brCache, detailCache,
                      opsStarted, mirrorVars, listCache, lastList, hooks, notes,
                      items, createTx>>

\* service.submit: prisma.budgetRequestApprovalHistory.create (lines 484-494)
SubmitHistory(p) ==
    LET h == proc[p]
    IN /\ h.pc = "sub_hist"
       /\ history' = HistoryCreate(history,
                        [budgetRequestId |-> h.id,
                         fromStatus |-> "DRAFT",
                         toStatus |-> "SUBMITTED",
                         action |-> "SUBMITTED",
                         amountBefore |-> {},
                         amountAfter |-> {},
                         transition |-> h.transition])
       /\ proc' = [proc EXCEPT ![p] = [h EXCEPT !.pc = "audit"]]
       /\ UNCHANGED <<sideVars, db, applied, approveDone, brCache, detailCache,
                      opsStarted, mirrorVars>>

\* The controller's auditLogger.submit / approve / reject
Audit(p, outcome) ==
    LET h == proc[p]
    IN /\ h.pc = "audit"
       /\ proc' = [proc EXCEPT ![p] =
                    AfterSideEffect(h, AuditLoggerLog(outcome), outcome, "del_detail")]
       /\ UNCHANGED <<sideVars, db, history, applied, approveDone, brCache, detailCache,
                      opsStarted, mirrorVars>>

\* The controller's cache.deleteCache(requests:detail {id}), list and
\* analytics invalidation
DeleteDetail(p) ==
    LET h == proc[p]
    IN /\ h.pc = "del_detail"
       /\ detailCache' = CacheDel(detailCache, h.id)
       /\ listCache' = InvalidateBudgetRequests(listCache)
       /\ approveDone' = IF h.op = "approve" THEN approveDone \cup {h.id} ELSE approveDone
       /\ proc' = [proc EXCEPT ![p] = [h EXCEPT !.pc = "webhook"]]
       /\ UNCHANGED <<recordVars, lastList, hooks, notes, db, history, applied, brCache, opsStarted, mirrorVars>>

\* The controller's webhookDispatcher.dispatch, then the success response
Webhook(p, outcome) ==
    LET h == proc[p]
        next == AfterSideEffect(h, WebhookDispatch(outcome), outcome, "done")
    IN /\ h.pc = "webhook"
       /\ proc' = [proc EXCEPT ![p] =
                    IF next.pc = "done" /\ next.resp = "none"
                    THEN Respond(next, "success", h.updated)
                    ELSE next]
       /\ UNCHANGED <<sideVars, db, history, applied, approveDone, brCache, detailCache,
                      opsStarted, mirrorVars>>

\* getBudgetRequest after withCache: checkAccess decides between the record
\* and a refusal
GetReply(h, record) ==
    IF CheckAccess(TheRow(record), h.user) THEN Respond(h, "success", record)
    ELSE Respond(h, "forbidden", {})

\* getBudgetRequest: cache.withCache(requests:detail {id}, ...), the lookup
GetLookup(p) ==
    LET h == proc[p]
        hit == CacheGet(detailCache, h.id)
    IN /\ h.pc = "g_get"
       /\ proc' = [proc EXCEPT ![p] =
                    IF hit # {} THEN GetReply(h, hit)
                    ELSE [h EXCEPT !.pc = "fb_get"]]
       /\ UNCHANGED <<sideVars, db, history, applied, approveDone, brCache, detailCache,
                      opsStarted, mirrorVars>>

\* getBudgetRequest: on a miss withCache stores what findById returned
GetStore(p) ==
    LET h == proc[p]
    IN /\ h.pc = "g_store"
       /\ IF h.found = {}
          THEN /\ proc' = [proc EXCEPT ![p] = Respond(h, "notFound", {})]
               /\ UNCHANGED detailCache
          ELSE /\ detailCache' = CacheSet(detailCache, h.id, TheRow(h.found))
               /\ proc' = [proc EXCEPT ![p] = GetReply(h, h.found)]
       /\ UNCHANGED <<sideVars, db, history, applied, approveDone, brCache, opsStarted, mirrorVars>>

\* The delete operation: a draft is flagged isDeleted and its cache entries
\* are dropped
SoftDelete(id) ==
    /\ db[id].status = "DRAFT"
    /\ ~db[id].isDeleted
    /\ db' = [db EXCEPT ![id].isDeleted = TRUE]
    /\ brCache' = CacheDel(brCache, id)
    /\ detailCache' = CacheDel(detailCache, id)
    /\ listCache' = InvalidateBudgetRequests(listCache)
    /\ UNCHANGED <<recordVars, lastList, hooks, notes, history, applied, approveDone, proc, opsStarted, mirrorVars>>

\* The TTL of a br:{id} or requests:detail entry runs out
ExpireBr(id) ==
    /\ id \in DOMAIN brCache
    /\ brCache' = CacheDel(brCache, id)
    /\ UNCHANGED <<sideVars, db, history, applied, approveDone, detailCache, proc,
                   opsStarted, mirrorVars>>

ExpireDetail(id) ==
    /\ id \in DOMAIN detailCache
    /\ detailCache' = CacheDel(detailCache, id)
    /\ UNCHANGED <<sideVars, db, history, applied, approveDone, brCache, proc,
                   opsStarted, mirrorVars>>

Continue(p) ==
    \/ FbGet(p)
    \/ FbDb(p)
    \/ FbStore(p)
    \/ SubmitUpdate(p)
    \/ ReviewTx(p)
    \/ \E o \in Outcomes : Invalidate(p, o)
    \/ \E o \in Outcomes : Reserve(p, o)
    \/ \E o \in Outcomes : Notify(p, o)
    \/ SubmitHistory(p)
    \/ \E o \in Outcomes : Audit(p, o)
    \/ DeleteDetail(p)
    \/ \E o \in Outcomes : Webhook(p, o)
    \/ GetLookup(p)
    \/ GetStore(p)

Step(p) ==
    \/ \E op \in Ops, id \in 1..MaxReq : \E arg \in Inputs(op) : Start(p, op, id, arg)
    \/ Continue(p)

\* The same handlers, with approvalData not restricted by approvalSchema
ServiceStep(p) ==
    \/ \E op \in Ops, id \in 1..MaxReq : \E arg \in ServiceInputs(op) :
          Start(p, op, id, arg)
    \/ Continue(p)

-----------------------------------------------------------------------------
(* service.create step by step: the prisma.$transaction around the request
   row and its item allocations *)

\* data.items of a create: the names of the items asked for
CreateItemInputs == { {}, {"laptop"}, {"laptop", "chair"} }

\* The row create builds: totalItemsRequested is data.items.length, null
\* without items
RequestRowWithItems(data, budget, itemNames) ==
    LET row == NewRequestRow(data, budget)
    IN [f \in DOMAIN row \cup {"totalItemsRequested"} |->
          IF f = "totalItemsRequested"
          THEN IF itemNames = {} THEN {} ELSE {Cardinality(itemNames)}
          ELSE row[f]]

\* mappedItems: one allocation row per item, bound to br.id
MappedItems(id, data, itemNames) ==
    { [budgetRequestId |-> id, itemName |-> n, status |-> data.status] :
        n \in itemNames }

\* A write through the transaction client tx is held back until the callback
\* of prisma.$transaction has returned; a write through prisma is committed
\* at once.
WriteOutsideTransaction(committed, pending, rows) ==
    [committed |-> committed \cup rows, pending |-> pending]
TxWrite(committed, pending, rows) ==
    [committed |-> committed, pending |-> pending \cup rows]

NoTx ==
    [state |-> "none", row |-> {}, items |-> {}, id |-> 0, before |-> 0,
     data |-> {}, requested |-> {}]

\* create up to tx.budgetRequest.create: the sync, then the transaction opens
\* and the request row is written in it
BeginCreate(data, itemNames, fin) ==
    LET out == SyncDepartmentBudget(mirror, budgetCache, data.department,
                                    data.fiscalYear, data.fiscalPeriod, fin)
        call == SyncRecord(mirror, data.department, data.fiscalYear,
                           data.fiscalPeriod, fin, out)
        row == RequestRowWithItems(data, out.result, itemNames)
        w == TxWrite({}, {}, {row})
    IN /\ createTx.state \in {"none", "committed", "rolledBack"}
       /\ Len(db) < MaxReq
       /\ out.path # "error"
       /\ mirror' = out.mirror
       /\ budgetCache' = out.budgetCache
       /\ lastSync' = [call EXCEPT !.caller = "create transaction"]
       /\ db' = IF w.committed = {} THEN db ELSE Append(db, row)
       /\ createTx' = [state |-> "row", row |-> w.pending, items |-> {},
                       id |-> Len(db) + 1, before |-> Len(db),
                       data |-> {data}, requested |-> itemNames]
       /\ UNCHANGED <<history, applied, approveDone, brCache, detailCache, proc,
                      opsStarted, listCache, lastList, hooks, notes, items, outbox>>

\* tx.budgetRequestItemAllocation.createMany, run when items were provided;
\* when it throws, the transaction is rolled back and create throws
TxCreateItems(outcome) ==
    LET data == CHOOSE d \in createTx.data : TRUE
        w == TxWrite(items, createTx.items,
                     MappedItems(createTx.id, data, createTx.requested))
    IN /\ createTx.state = "row"
       /\ createTx.requested # {}
       /\ IF outcome = "ok"
          THEN /\ items' = w.committed
               /\ createTx' = [createTx EXCEPT !.state = "ready", !.items = w.pending]
          ELSE /\ items' = items
               /\ createTx' = [createTx EXCEPT !.state = "rolledBack",
                                               !.row = {}, !.items = {}]
       /\ UNCHANGED <<lifecycleVars, mirrorVars, listCache, lastList, hooks, notes,
                      outbox>>

\* The callback returns br: the transaction commits, and the controller
\* invalidates the list caches
TxCommit ==
    /\ \/ createTx.state = "ready"
       \/ createTx.state = "row" /\ createTx.requested = {}
    /\ db' = IF createTx.row = {} THEN db ELSE Append(db, TheRow(createTx.row))
    /\ items' = items \cup createTx.items
    /\ createTx' = [createTx EXCEPT !.state = "committed", !.row = {}, !.items = {}]
    /\ listCache' = InvalidateBudgetRequests(listCache)
    /\ UNCHANGED <<history, applied, approveDone, brCache, detailCache, proc,
                   opsStarted, mirrorVars, lastList, hooks, notes, outbox>>

-----------------------------------------------------------------------------
(* Response Cache Layer: listBudgetRequests behind cache.withCache *)

\* The query parameters of a list request; {} is a parameter left out
ListParams ==
    { [status |-> {}, department |-> {}],
      [status |-> {"DRAFT"}, department |-> {}],
      [status |-> {}, department |-> {"hr"}] }

\* The requesters of list queries: u1 comes with two tokens, one per role
ListUsers == {Creator, User("u1", "Finance Staff"), User("ha", "HR Admin")}

\* applyAccessFilter: finance sees every department, the others their own
ApplyAccessFilter(filter, user) ==
    IF user.department = "finance"
    THEN filter
    ELSE [filter EXCEPT !.department = {user.department}]

\* The where clause listBudgetRequests builds: base filter, the valid query
\* parameters, then the access filter
ListFilter(params, user) ==
    ApplyAccessFilter([isDeleted |-> FALSE, status |-> params.status,
                       department |-> params.department], user)

\* cache.generateUserCacheKey(prefix, userId, role, params)
GenerateUserCacheKey(prefix, userId, role, params) == <<prefix, userId, role, params>>

\* The key listBudgetRequests asks for
ListCacheKeyNoRole(user, params) ==
    GenerateUserCacheKey("requests:list", user.id, "", params)
ListCacheKey(user, params) ==
    GenerateUserCacheKey("requests:list", user.id, user.role, params)

\* service.findMany(where): the ids of the matching rows
FindMany(where) ==
    { i \in 1..Len(db) :
        /\ db[i].isDeleted = where.isDeleted
        /\ where.status = {} \/ db[i].status \in where.status
        /\ where.department = {} \/ db[i].department \in where.department }

NoList ==
    [user |-> NoUser, params |-> [status |-> {}, department |-> {}],
     where |-> [isDeleted |-> FALSE, status |-> {}, department |-> {}],
     fromCache |-> FALSE,
     entry |-> [data |-> {}, where |-> [isDeleted |-> FALSE, status |-> {},
                                        department |-> {}],
                userId |-> "none", role |-> "none",
                params |-> [status |-> {}, department |-> {}]]]

\* listBudgetRequests: withCache returns the entry under the key, or runs the
\* query and stores its result for 180 s.  The entry remembers the query and
\* the requester it was computed for.
ListBudgetRequests(user, params) ==
    LET where == ListFilter(params, user)
        key == ListCacheKey(user, params)
        hit == key \in DOMAIN listCache
        entry == IF hit
                 THEN listCache[key]
                 ELSE [data |-> FindMany(where), where |-> where,
                       userId |-> user.id, role |-> user.role, params |-> params]
    IN /\ hit \/ Cardinality(DOMAIN listCache) < MaxOps
       /\ listCache' = IF hit THEN listCache ELSE CacheSet(listCache, key, entry)
       /\ lastList' = [user |-> user, params |-> params, where |-> where,
                       fromCache |-> hit, entry |-> entry]
       /\ UNCHANGED <<recordVars, lifecycleVars, mirrorVars, hooks, notes>>

\* The TTL of a requests:list entry runs out
ExpireList(key) ==
    /\ key \in DOMAIN listCache
    /\ listCache' = [k \in DOMAIN listCache \ {key} |-> listCache[k]]
    /\ UNCHANGED <<recordVars, lifecycleVars, mirrorVars, lastList, hooks, notes>>

-----------------------------------------------------------------------------
(* Webhook dispatcher (webhooks/dispatcher.ts) *)

Subscribers == {"s1", "s2", "s3"}

\* How one axios.post ends: a 2xx answer, a rejection, the 5 s timeout
PostOutcomes == {"ok", "failed", "timeout"}

\* getWebhookSubscriptions: the list stored under the event's key, [] when
\* the lookup throws or the key is missing
GetWebhookSubscriptions(registered, lookup) ==
    IF lookup = "ok" THEN registered ELSE {}

\* sendWebhook after its axios.post has settled: the catch block logs, so the
\* promise of sendWebhook is fulfilled either way
SendWebhookRetries(post, outcome) ==
    IF outcome = "ok"
    THEN [attempts |-> post.attempts, result |-> outcome, promise |-> "fulfilled"]
    ELSE [attempts |-> post.attempts + 1, result |-> "inflight", promise |-> "pending"]
SendWebhook(post, outcome) ==
    [attempts |-> post.attempts, result |-> outcome, promise |-> "fulfilled"]

NoPost == [attempts |-> 0, result |-> "none", promise |-> "none"]

NoDispatch ==
    [state |-> "idle", subs |-> {}, post |-> [s \in Subscribers |-> NoPost],
     raised |-> FALSE, events |-> 0]

\* dispatch up to its await: the lookup, then map starts one sendWebhook per
\* subscription, each running to its axios.post
Dispatch(registered, lookup) ==
    LET webhooks == GetWebhookSubscriptions(registered, lookup)
    IN /\ hooks.state \in {"idle", "returned"}
       /\ hooks.events < MaxOps
       /\ hooks' = [state |-> "settling",
                    subs |-> webhooks,
                    post |-> [s \in Subscribers |->
                                IF s \in webhooks
                                THEN [attempts |-> 1, result |-> "inflight",
                                      promise |-> "pending"]
                                ELSE NoPost],
                    raised |-> FALSE,
                    events |-> hooks.events + 1]
       /\ UNCHANGED <<recordVars, lifecycleVars, mirrorVars, listCache, lastList, notes>>

\* The POST to subscriber s settles
PostSettles(s, outcome) ==
    /\ hooks.state = "settling"
    /\ hooks.post[s].result = "inflight"
    /\ hooks' = [hooks EXCEPT !.post[s] = SendWebhook(hooks.post[s], outcome)]
    /\ UNCHANGED <<recordVars, lifecycleVars, mirrorVars, listCache, lastList, notes>>

\* Promise.allSettled resolves once no promise is pending, whatever their
\* states; dispatch returns
DispatchReturns ==
    /\ hooks.state = "settling"
    /\ \A s \in hooks.subs : hooks.post[s].promise # "pending"
    /\ hooks' = [hooks EXCEPT !.state = "returned", !.raised = FALSE]
    /\ UNCHANGED <<recordVars, lifecycleVars, mirrorVars, listCache, lastList, notes>>

-----------------------------------------------------------------------------
(* Notification service: sendNotification (notification.service.ts) *)

\* The messages transporter.sendMail rejects with
SendErrors == {"ETIMEDOUT", "EENVELOPE"}

IdleCall ==
    [pc |-> "idle", budgetRequestId |-> 0, row |-> 0, outcome |-> "none",
     thrown |-> FALSE]

NoNotes == [rows |-> <<>>, calls |-> [c \in Procs |-> IdleCall]]

\* sendNotification up to sendMail: the record is created pending; an email
\* goes out only when SMTP is configured and the recipient has an address
CreateNotification(c, budgetRequestId, email) ==
    /\ notes.calls[c].pc \in {"idle", "returned"}
    /\ Len(notes.rows) < MaxOps
    /\ notes' = [rows |-> Append(notes.rows,
                            [budgetRequestId |-> budgetRequestId,
                             deliveryStatus |-> "pending",
                             sentAt |-> FALSE,
                             deliveryError |-> {}]),
                 calls |-> [notes.calls EXCEPT ![c] =
                              [pc |-> IF email THEN "sending" ELSE "returned",
                               budgetRequestId |-> budgetRequestId,
                               row |-> Len(notes.rows) + 1,
                               outcome |-> "none",
                               thrown |-> FALSE]]]
    /\ UNCHANGED <<recordVars, lifecycleVars, mirrorVars, listCache, lastList, hooks>>

\* transporter.sendMail settles
TransportSettles(c, outcome) ==
    /\ notes.calls[c].pc = "sending"
    /\ notes' = [notes EXCEPT !.calls[c].pc = IF outcome = "ok" THEN "sent" ELSE "caught",
                              !.calls[c].outcome = outcome]
    /\ UNCHANGED <<recordVars, lifecycleVars, mirrorVars, listCache, lastList, hooks>>

\* update({ where: { id: notification.id } }): sent, with sentAt
MarkSent(c) ==
    LET k == notes.calls[c]
    IN /\ k.pc = "sent"
       /\ notes' = [notes EXCEPT !.rows[k.row].deliveryStatus = "sent",
                                 !.rows[k.row].sentAt = TRUE,
                                 !.calls[c].pc = "returned"]
       /\ UNCHANGED <<recordVars, lifecycleVars, mirrorVars, listCache, lastList, hooks>>

\* The rows updateMany({ where: { budgetRequestId, deliveryStatus: 'pending' } })
\* of the catch block writes to
FailedRows(rows, k) ==
    { i \in 1..Len(rows) : /\ rows[i].budgetRequestId = k.budgetRequestId
                           /\ rows[i].deliveryStatus = "pending" }

\* The catch block: failed, with the error's message; nothing is rethrown
MarkFailed(c) ==
    LET k == notes.calls[c]
        hit == FailedRows(notes.rows, k)
    IN /\ k.pc = "caught"
       /\ notes' = [notes EXCEPT
                      !.rows = [i \in 1..Len(notes.rows) |->
                                  IF i \in hit
                                  THEN [notes.rows[i] EXCEPT
                                          !.deliveryStatus = "failed",
                                          !.deliveryError = {k.outcome}]
                                  ELSE notes.rows[i]],
                      !.calls[c].pc = "returned"]
       /\ UNCHANGED <<recordVars, lifecycleVars, mirrorVars, listCache, lastList, hooks>>

-----------------------------------------------------------------------------
(* The state after start-up *)

Init ==
    /\ db = <<>>
    /\ history = <<>>
    /\ applied = <<>>
    /\ approveDone = {}
    /\ brCache = <<>>
    /\ detailCache = <<>>
    /\ proc = [p \in Procs |-> IdleProc]
    /\ opsStarted = 0
    /\ mirror = {}
    /\ budgetCache = <<>>
    /\ lastSync = NoSync
    /\ listCache = <<>>
    /\ lastList = NoList
    /\ hooks = NoDispatch
    /\ notes = NoNotes
    /\ items = {}
    /\ createTx = NoTx
    /\ outbox = {}

-----------------------------------------------------------------------------
(* The budget mirror on its own: syncs and creates, one at a time *)

MirrorDepartments == {"operations"}
MirrorYears == {2025, 2026}
MirrorPeriods == {"Q4"}
MirrorAmounts == {10000}

MirrorCreateInputs ==
    [department : MirrorDepartments, fiscalYear : MirrorYears,
     fiscalPeriod : MirrorPeriods, amountRequested : MirrorAmounts,
     status : {"DRAFT"}, createdBy : {Creator.id}]

MirrorNext ==
    \/ \E d \in MirrorDepartments, y \in MirrorYears, fp \in MirrorPeriods :
         \E fin \in FinanceAnswers(d, y, fp) : SyncCall(d, y, fp, fin)
    \/ \E data \in MirrorCreateInputs :
         \E fin \in FinanceAnswers(data.department, data.fiscalYear, data.fiscalPeriod) :
            Create(data, fin)
    \/ \E ck \in DOMAIN budgetCache : ExpireBudgetCache(ck)

MirrorSpec == Init /\ [][MirrorNext]_vars

\* The synthetic fallback over every department and period format: Finance is
\* unreachable and the mirror starts empty
SyntheticNext ==
    \E d \in Departments, y \in MirrorYears, fp \in Quarters \cup Halves \cup Months :
       /\ Cardinality(mirror) < MaxRows \/ FindUniqueBudget(mirror, d, y, fp) # {}
       /\ SyncCall(d, y, fp, FinanceFailure)

SyntheticSpec == Init /\ [][SyntheticNext]_vars

-----------------------------------------------------------------------------
(* The service: handlers interleave at their awaits *)

LifecycleCreateInputs ==
    [department : {"operations"}, fiscalYear : {2026}, fiscalPeriod : {"Q4"},
     amountRequested : {10000}, status : CreateStatuses,
     createdBy : {Creator.id}]

LifecycleFinanceAnswers == {FinanceFailure}

Environment ==
    \/ \E data \in LifecycleCreateInputs :
         \E fin \in LifecycleFinanceAnswers : Create(data, fin)
    \/ \E id \in DOMAIN brCache : ExpireBr(id)
    \/ \E id \in DOMAIN detailCache : ExpireDetail(id)

Next ==
    \/ \E p \in Procs : Step(p)
    \/ Environment

Spec == Init /\ [][Next]_vars

\* Requests processed one at a time: a handler takes steps only while every
\* other handler slot is idle.
Alone(p) == \A q \in Procs \ {p} : proc[q].pc \in {"idle", "done"}

SeqNext ==
    \/ \E p \in Procs : Alone(p) /\ Step(p)
    \/ (\A q \in Procs : proc[q].pc \in {"idle", "done"}) /\ Environment

SeqSpec == Init /\ [][SeqNext]_vars

\* An external HTTP endpoint accepts the call and never answers.  The webhook
\* POST carries timeout 5000, so axios rejects it and sendWebhook's catch goes
\* on; the audit POST and the reservation POST carry no timeout, so their
\* await never resumes.
Hang(p) ==
    \/ proc[p].pc = "webhook" /\ Webhook(p, "fail")
    \/ /\ proc[p].pc \in {"reserve", "audit"}
       /\ proc' = [proc EXCEPT ![p].pc = "hung"]
       /\ UNCHANGED <<sideVars, db, history, applied, approveDone, brCache,
                      detailCache, opsStarted, mirrorVars>>

\* One request at a time, with endpoints that may hang.  The event loop runs
\* a handler's continuation once the promise it awaits has settled.
HangNext ==
    \/ SeqNext
    \/ \E p \in Procs : Hang(p)

HangSpec == Init /\ [][HangNext]_vars /\ \A p \in Procs : WF_vars(Continue(p))

ServiceNext ==
    \/ \E p \in Procs : Alone(p) /\ ServiceStep(p)
    \/ (\A q \in Procs : proc[q].pc \in {"idle", "done"}) /\ Environment

ServiceSpec == Init /\ [][ServiceNext]_vars

\* Requests of every user, on routes of every scope, one at a time, and
\* soft deletion of drafts
AccessStep(p) ==
    \/ \E op \in Ops, id \in 1..MaxReq, user \in AccessUsers, scope \in Scopes :
          \E arg \in Inputs(op) : Arrive(p, op, id, arg, user, scope)
    \/ Continue(p)

AccessNext ==
    \/ \E p \in Procs : Alone(p) /\ AccessStep(p)
    \/ (\A q \in Procs : proc[q].pc \in {"idle", "done"}) /\ Environment
    \/ (\A q \in Procs : proc[q].pc \in {"idle", "done"})
          /\ \E id \in 1..Len(db) : SoftDelete(id)

AccessSpec == Init /\ [][AccessNext]_vars

\* The middleware alone: requests of every user on routes of every scope
\* reach checkPermission one at a time; it refuses them or hands them to the
\* controller
PermissionNext ==
    \/ \E p \in Procs, op \in Ops, id \in 1..MaxReq, user \in AccessUsers,
          scope \in Scopes :
             \E arg \in Inputs(op) : Alone(p) /\ Arrive(p, op, id, arg, user, scope)
    \/ \E data \in LifecycleCreateInputs :
         \E fin \in LifecycleFinanceAnswers : Create(data, fin)
    \/ \E id \in 1..Len(db) : SoftDelete(id)

PermissionSpec == Init /\ [][PermissionNext]_vars

\* List queries of several requesters over the stored requests
ListCreateInputs ==
    [department : {"operations", "hr"}, fiscalYear : {2026}, fiscalPeriod : {"Q4"},
     amountRequested : {10000}, status : CreateStatuses,
     createdBy : {Creator.id}]

ListNext ==
    \/ \E user \in ListUsers, params \in ListParams : ListBudgetRequests(user, params)
    \/ \E key \in DOMAIN listCache : ExpireList(key)
    \/ \E data \in ListCreateInputs :
         \E fin \in LifecycleFinanceAnswers : Create(data, fin)
    \/ \E id \in 1..Len(db) : SoftDelete(id)

ListSpec == Init /\ [][ListNext]_vars

\* Webhook events dispatched one after the other
WebhookNext ==
    \/ \E registered \in SUBSET Subscribers, lookup \in Outcomes :
          Dispatch(registered, lookup)
    \/ \E s \in Subscribers, outcome \in PostOutcomes : PostSettles(s, outcome)
    \/ DispatchReturns

WebhookSpec == Init /\ [][WebhookNext]_vars

\* sendNotification calls in flight at the same time
NotificationNext ==
    \E c \in Procs :
       \/ \E id \in 1..MaxReq, email \in BOOLEAN : CreateNotification(c, id, email)
       \/ \E outcome \in {"ok"} \cup SendErrors : TransportSettles(c, outcome)
       \/ MarkSent(c)
       \/ MarkFailed(c)

NotificationSpec == Init /\ [][NotificationNext]_vars

\* Creates with items, step by step, among requests handled one at a time
CreateNext ==
    \/ \E data \in LifecycleCreateInputs, itemNames \in CreateItemInputs :
         \E fin \in LifecycleFinanceAnswers : BeginCreate(data, itemNames, fin)
    \/ \E outcome \in Outcomes : TxCreateItems(outcome)
    \/ TxCommit
    \/ \E p \in Procs :
          /\ Alone(p)
          /\ proc[p].pc \in {"idle", "done"} => opsStarted < MaxTxOps
          /\ Step(p)

CreateSpec == Init /\ [][CreateNext]_vars

-----------------------------------------------------------------------------
(* Claims *)

RequestIds == 1..Len(db)
HistoryOf(id) == { j \in 1..Len(history) : history[j].budgetRequestId = id }
Terminal == {"APPROVED", "REJECTED"}

\* C1: in every reachable state each BudgetRequest has a non-null
\* reservedAmount if and only if its status is APPROVED.
C1_ReservedIffApproved ==
    \A id \in RequestIds : (db[id].reservedAmount # {}) <=> (db[id].status = "APPROVED")

\* C2: once a request's stored status is APPROVED or REJECTED, no step changes
\* its status or appends a history row for it.
C2_TerminalIsFinal ==
    [][\A id \in RequestIds :
          db[id].status \in Terminal =>
             /\ db'[id].status = db[id].status
             /\ { j \in 1..Len(history') : history'[j].budgetRequestId = id } = HistoryOf(id)]_vars

\* C3: with requests processed one at a time, when the controller's findById
\* returns for a submit, approve or reject whose request is stored with a
\* status other than the required one, the handler answers with an error and
\* the step changes neither the request table nor the history table.
ReturnsFromControllerFind(h, h2) ==
    /\ h.op \in Transitions
    /\ h.pc \in {"fb_get", "fb_db", "fb_store"}
    /\ h.ret = "c_check"
    /\ ~(h2.pc \in {"fb_db", "fb_store"} /\ h2.ret = "c_check")

C3_WrongStatusRefused ==
    [][\A p \in Procs :
          ( /\ ReturnsFromControllerFind(proc[p], proc'[p])
            /\ DbFind(proc[p].id) # {}
            /\ db[proc[p].id].status # SourceStatus(proc[p].op) )
          => /\ proc'[p].pc = "done"
             /\ proc'[p].resp = "badRequest"
             /\ ~proc'[p].committed
             /\ db' = db
             /\ history' = history]_vars

\* C4: in no reachable state has a status update of submit, approve or reject
\* been applied without its history row being present.
C4_StatusAndHistoryTogether ==
    \A i \in 1..Len(applied) : \E j \in 1..Len(history) : history[j].transition = i

\* C5: every history row belongs to exactly one status update, and its
\* fromStatus and toStatus are the statuses stored immediately before and
\* after that update.
C5_HistoryMatchesTransition ==
    /\ \A j \in 1..Len(history) :
          LET t == applied[history[j].transition]
          IN /\ history[j].budgetRequestId = t.id
             /\ history[j].fromStatus = t.from
             /\ history[j].toStatus = t.to
    /\ \A j, k \in 1..Len(history) :
          history[j].transition = history[k].transition => j = k

\* C6: a getBudgetRequest that starts after approve(id) has committed and run
\* both cache invalidations returns the APPROVED record.
C6_ReadAfterApproveIsFresh ==
    \A p \in Procs :
       ( /\ proc[p].pc = "done"
         /\ proc[p].op = "get"
         /\ proc[p].after
         /\ proc[p].resp = "success" )
       => \A r \in proc[p].body : r.status = "APPROVED"

\* C7: a submit, approve or reject whose status write has committed, and
\* whose cache invalidation was not rejected, answers with success and the
\* updated request, whichever downstream calls failed, and
\* no audit, webhook, email or reservation step changes the request or history
\* tables.  (It holds for Spec as well as for SeqSpec.)
SideEffectPcs == {"reserve", "notify", "audit", "webhook"}

C7_CommittedMeansSuccess ==
    /\ [](\A p \in Procs :
            (proc[p].pc = "done" /\ proc[p].committed /\ ~proc[p].cacheFailed)
            => /\ proc[p].resp = "success"
               /\ \E r \in proc[p].body : r.status = TargetStatus(proc[p].op))
    /\ [][\A p \in Procs :
            (proc[p].pc \in SideEffectPcs /\ proc'[p] # proc[p])
            => (db' = db /\ history' = history)]_vars

C7_Witness ==
    \E p \in Procs :
       /\ proc[p].pc = "done"
       /\ proc[p].committed
       /\ proc[p].failed
       /\ proc[p].resp = "success"

\* C8: a create whose Finance call failed persists the request, with the
\* remaining amount of the mirror row found for its triple, or of the synthetic
\* default when there was none.
C8_CreateSurvivesFinanceOutage ==
    ( /\ lastSync.caller = "create"
      /\ lastSync.path # "cache"
      /\ ~lastSync.financeOk )
    => /\ lastSync.created # {}
       /\ \A id \in lastSync.created :
             /\ id \in RequestIds
             /\ db[id].departmentBudgetRemaining =
                   IF lastSync.prior = {} THEN DefaultAllocation
                   ELSE TheRow(lastSync.prior).remainingAmount

C8_Witness ==
    /\ lastSync.caller = "create"
    /\ lastSync.path = "synthetic"
    /\ lastSync.created # {}

\* C9: when the Finance call fails and a mirror row exists, the record
\* syncDepartmentBudget returns has isStale = true, the amounts of that row,
\* and the row is stale in the mirror.
C9_StaleFallbackSignalsStaleness ==
    lastSync.path = "stale"
    => /\ lastSync.result.isStale
       /\ \A r \in lastSync.prior :
             /\ lastSync.result.remainingAmount = r.remainingAmount
             /\ lastSync.result.allocatedAmount = r.allocatedAmount
       /\ \A r \in FindUniqueBudget(mirror, lastSync.department, lastSync.fiscalYear,
                                   lastSync.fiscalPeriod) : r.isStale

\* C10: a call that falls back during a Finance outage returns the budget id
\* of the one mirror row of its triple; a synthetic id is negative; the mirror
\* never holds two rows for a triple and a row's budget id never changes.
SameTriple(r1, r2) ==
    /\ r1.department = r2.department
    /\ r1.fiscalYear = r2.fiscalYear
    /\ r1.fiscalPeriod = r2.fiscalPeriod

C11_ShortfallIsClampedDifference ==
    /\ \A id \in RequestIds :
          LET d == db[id].amountRequested - db[id].departmentBudgetRemaining
          IN /\ db[id].budgetShortfall >= 0
             /\ db[id].budgetShortfall = IF d > 0 THEN d ELSE 0
    /\ lastSync.caller = "create" =>
          \A id \in lastSync.created :
             db[id].departmentBudgetRemaining = lastSync.result.remainingAmount

C11_Witness ==
    /\ lastSync.caller = "create"
    /\ \E id \in lastSync.created :
          /\ db[id].amountRequested = 10000
          /\ lastSync.result.remainingAmount = 8000
          /\ db[id].budgetShortfall = 2000

\* C12: right after approve's transaction, the stored row has bufferAmount =
\* input * bufferPercentage / 100 and reservedAmount = input + bufferAmount,
\* where input is the approver's reservedAmount or else amountRequested and
\* bufferPercentage counts as 0 when omitted; the history row of the transition
\* has amountBefore = amountRequested and amountAfter = the stored
\* reservedAmount.
JustApproved(h) == h.op = "approve" /\ h.pc = "invalidate"

C13_BufferPercentageGuarded ==
    \A id \in RequestIds :
       \A b \in db[id].bufferAmount : \A r \in db[id].reservedAmount :
          /\ 0 <= b
          /\ b <= r - b

\* C14: no step changes a request that has isDeleted = true or adds a history
\* row for it, a submit, approve or reject of it ends with not-found, and
\* getBudgetRequest never answers with a deleted request.
C14_DeletedIsUntouchable ==
    /\ [][\A id \in RequestIds :
            db[id].isDeleted =>
               /\ db'[id] = db[id]
               /\ { j \in 1..Len(history') : history'[j].budgetRequestId = id }
                      = HistoryOf(id)]_vars
    /\ [](\A p \in Procs :
            (proc[p].pc = "done" /\ proc[p].op = "get" /\ proc[p].resp = "success")
            => \A r \in proc[p].body : ~r.isDeleted)

\* C15: a list request served from the response cache is served an entry that
\* was computed for the same user id, role and filter set, under the same
\* access-filtered query (the same department restriction of applyAccessFilter)
\* the request would have run itself.
C15_ListCacheKeepsAccessScope ==
    lastList.fromCache =>
        /\ lastList.entry.userId = lastList.user.id
        /\ lastList.entry.role = lastList.user.role
        /\ lastList.entry.params = lastList.params
        /\ lastList.entry.where = ListFilter(lastList.params, lastList.user)
        /\ lastList.entry.where.department = lastList.where.department

\* A request is served from the cache while the cache also holds the result
\* of the same filter set for the same user id under another role, computed
\* under another department restriction.
C15_Witness ==
    /\ lastList.fromCache
    /\ \E k \in DOMAIN listCache :
          /\ listCache[k].params = lastList.params
          /\ listCache[k].userId = lastList.user.id
          /\ listCache[k].where.department # lastList.where.department

\* C16: every submit, approve and reject request a handler has taken up is
\* eventually answered, also when an external HTTP endpoint it calls accepts
\* the call and never answers.
C16_EveryRequestIsAnswered ==
    \A p \in Procs : (proc[p].pc \notin {"idle", "done"}) ~> (proc[p].pc = "done")

\* C17: for one dispatched event every subscriber the lookup returned gets
\* exactly one POST attempt and no other subscriber gets any, whatever the
\* other attempts do; a failed attempt is not retried; dispatch returns once
\* every attempt has settled and raises nothing.
C17_OnePostPerSubscriber ==
    /\ hooks.state # "idle" =>
          /\ \A s \in hooks.subs : hooks.post[s].attempts = 1
          /\ \A s \in Subscribers \ hooks.subs : hooks.post[s].attempts = 0
    /\ hooks.state = "returned" =>
          \A s \in hooks.subs : hooks.post[s].result \in PostOutcomes
    /\ ~hooks.raised

\* A dispatch has returned after one attempt failed, one timed out and one
\* was answered.
C17_Witness ==
    /\ hooks.state = "returned"
    /\ \E s1, s2, s3 \in hooks.subs :
          /\ hooks.post[s1].result = "failed"
          /\ hooks.post[s2].result = "timeout"
          /\ hooks.post[s3].result = "ok"

\* C18: the record of a notification exists before its send is attempted;
\* once the call has returned, the record is sent with sentAt set when the
\* send succeeded, and failed with the send's error message when it failed;
\* nothing is thrown to the caller.
C18_RecordFollowsItsSend ==
    \A c \in Procs :
       LET k == notes.calls[c]
       IN /\ k.pc \in {"sending", "sent", "caught"} => k.row \in 1..Len(notes.rows)
          /\ (k.pc = "returned" /\ k.outcome = "ok") =>
                /\ notes.rows[k.row].deliveryStatus = "sent"
                /\ notes.rows[k.row].sentAt
          /\ (k.pc = "returned" /\ k.outcome \in SendErrors) =>
                /\ notes.rows[k.row].deliveryStatus = "failed"
                /\ notes.rows[k.row].deliveryError = {k.outcome}
          /\ ~k.thrown

\* C19: an approve or reject request of a user whose department is not
\* finance never gets past checkPermission: whatever the role, the scope of the
\* route and the target, it ends at the middleware with forbidden or not-found
\* and the handler never runs.
C19_OnlyFinanceReachesReview ==
    \A p \in Procs :
       ( /\ proc[p].op \in {"approve", "reject"}
         /\ proc[p].user.department # "finance" )
       => /\ proc[p].pc = "done"
          /\ proc[p].resp \in {"forbidden", "notFound"}
          /\ ~proc[p].committed

C19_Witness ==
    \E p \in Procs :
       /\ proc[p].pc = "done"
       /\ proc[p].op = "approve"
       /\ proc[p].user.role = "Operations Admin"
       /\ proc[p].scope = "department"
       /\ DbFind(proc[p].id) # {}
       /\ db[proc[p].id].department = "operations"
       /\ db[proc[p].id].status = "SUBMITTED"
       /\ proc[p].resp = "forbidden"

\* C20: a submit whose status write has been made was requested by the
\* request's creator, by an admin of the request's own department, or by a
\* Finance Admin.
C20_SubmitOnlyByOwnerOrDepartmentAdmin ==
    \A p \in Procs :
       (proc[p].op = "submit" /\ proc[p].committed)
       => LET u == proc[p].user
              row == db[proc[p].id]
          IN \/ row.createdBy = u.id
             \/ IsAdminRole(u.role) /\ u.department = row.department
             \/ IsAdminRole(u.role) /\ u.department = "finance"

\* C21: a Finance Admin's getBudgetRequest of a stored request that is not
\* deleted is never refused, whatever the request's department: the detail
\* access check lets through what the list filter shows and the permission
\* check lets the Finance Admin review.
C21_FinanceAdminReadsEveryDepartment ==
    \A p \in Procs :
       LET h == proc[p]
       IN (/\ h.pc = "done"
           /\ h.op = "get"
           /\ h.user.role = "Finance Admin"
           /\ h.id \in 1..Len(db)
           /\ ~db[h.id].isDeleted
           /\ db[h.id] \in { db[i] : i \in FindMany(ListFilter([status |-> {},
                                              department |-> {}], h.user)) })
          => h.resp # "forbidden"

\* C22: every stored request has all the item allocations its create was
\* given and no allocation belongs to a request that is not stored, in every
\* state a reader can observe; a create whose item insertion failed leaves no
\* request row; only the commit of a create changes the allocation table.
ItemsOf(id) == { it \in items : it.budgetRequestId = id }

C22_RequestAndItemsTogether ==
    /\ [](/\ \A id \in 1..Len(db) :
               Cardinality(ItemsOf(id)) =
                  IF "totalItemsRequested" \in DOMAIN db[id]
                        /\ db[id].totalItemsRequested # {}
                  THEN CHOOSE n \in db[id].totalItemsRequested : TRUE
                  ELSE 0
          /\ \A it \in items : it.budgetRequestId \in 1..Len(db)
          /\ createTx.state = "rolledBack" => Len(db) = createTx.before)
    /\ [][items' # items =>
            createTx.state = "ready" /\ createTx'.state = "committed"]_vars

\* The insertion of two items has failed after the request row was written
\* in the transaction.
C22_Witness ==
    /\ createTx.state = "rolledBack"
    /\ Cardinality(createTx.requested) = 2

\* C23: no step of create, submit, approve or reject changes or removes a
\* history row that exists, so the history rows of a request never become
\* fewer, and no request row disappears.
C23_HistoryAppendOnly ==
    [][/\ Len(history') >= Len(history)
       /\ \A j \in 1..Len(history) : history'[j] = history[j]
       /\ \A id \in RequestIds :
             Cardinality(HistoryOf(id)) <=
                Cardinality({ j \in 1..Len(history') : history'[j].budgetRequestId = id })
       /\ Len(db') >= Len(db)]_vars

\* A request has been submitted and then reviewed: its history holds both rows.
C23_Witness ==
    \E id \in RequestIds :
       \E j, k \in HistoryOf(id) :
          /\ j < k
          /\ history[j].toStatus = "SUBMITTED"
          /\ history[k].toStatus \in {"APPROVED", "REJECTED"}

\* C24: the record a syncDepartmentBudget call returns carries the
\* department, fiscal year and fiscal period the call asked for, also when it
\* comes from the short-TTL cache.
C24_SyncReturnsRequestedTriple ==
    lastSync.path \in {"cache", "finance", "stale", "synthetic"} =>
        /\ lastSync.result.department = lastSync.department
        /\ lastSync.result.fiscalYear = lastSync.fiscalYear
        /\ lastSync.result.fiscalPeriod = lastSync.fiscalPeriod

\* C25: every mirror row with isStale = false carries the budget id Finance
\* reports for its triple, never a negative synthetic id, and after a
\* successful sync the row of the triple has Finance's id and amounts and is
\* not stale.
C25_FreshRowHasFinanceId ==
    /\ \A r \in mirror :
          ~r.isStale =>
             r.budgetId = FinanceBudgetId(r.department, r.fiscalYear, r.fiscalPeriod)
    /\ lastSync.path = "finance" =>
          /\ lastSync.result.budgetId =
                FinanceBudgetId(lastSync.department, lastSync.fiscalYear,
                                lastSync.fiscalPeriod)
          /\ ~lastSync.result.isStale

\* C27: every entry of the short-TTL department-budget cache is a record of a
\* successful Finance sync: not stale and with a real (positive) budget id.
C27_BudgetCacheHoldsFinanceRecords ==
    \A ck \in DOMAIN budgetCache :
       /\ ~budgetCache[ck].isStale
       /\ budgetCache[ck].budgetId > 0

\* C26: the synthetic budget ids of two distinct (department, fiscalYear,
\* fiscalPeriod) triples differ, and every synthetic id is negative.
C26_SyntheticIdUniquePerTriple ==
    \A r1, r2 \in mirror :
       /\ r1.budgetId < 0
       /\ ~SameTriple(r1, r2) => r1.budgetId # r2.budgetId

\* C28: a notification record becomes failed only in the step in which the
\* sendNotification call that created it handles the failure of its own send.
C28_FailureMarksOwnRecordOnly ==
    [][\A i \in 1..Len(notes.rows) :
          (notes.rows[i].deliveryStatus # "failed"
              /\ notes'.rows[i].deliveryStatus = "failed")
          => \E c \in Procs : /\ notes.calls[c].pc = "caught"
                              /\ notes.calls[c].row = i
                              /\ notes'.calls[c].pc = "returned"]_vars

\* C29: every request that is SUBMITTED, APPROVED or REJECTED has a history
\* row with toStatus SUBMITTED and has had notifyAdminsNewRequest called for
\* it, also when create stored it with initial status SUBMITTED.
C29_SubmittedHasHistoryAndNotification ==
    \A id \in RequestIds :
       db[id].status \in {"SUBMITTED", "APPROVED", "REJECTED"} =>
          /\ \E j \in HistoryOf(id) : history[j].toStatus = "SUBMITTED"
          /\ \E m \in outbox : /\ m.kind = "adminNotification"
                                /\ m.budgetRequestId = id

\* C30: every reservation notification posted to Finance was posted by an
\* approve whose transaction had committed, carries the stored reservedAmount
\* of a request that was APPROVED when it was read, and carries the one key
\* of its request id.
C30_ReservationFollowsApproval ==
    /\ [](\A m \in outbox :
             m.kind = "reservation" =>
                /\ m.rowStatus = "APPROVED"
                /\ m.amount > 0
                /\ \A m2 \in outbox :
                      (m2.kind = "reservation"
                          /\ m2.budgetRequestId = m.budgetRequestId)
                      => m2.idempotencyKey = m.idempotencyKey)
    /\ [][\A p \in Procs :
            (proc[p].pc = "reserve" /\ proc'[p] # proc[p]) =>
               /\ proc[p].op = "approve"
               /\ proc[p].committed
               /\ \E m \in outbox' : /\ m.kind = "reservation"
                                     /\ m.budgetRequestId = proc[p].id
                                     /\ {m.amount} = db[proc[p].id].reservedAmount]_vars

====
